---- MODULE Spec2Model ----
(***************************************************************************)
(* Model of the snowball-rs parser driver (src/src/frontend/parser.rs):    *)
(* the token cursor, the global-declaration loop parse_global, the         *)
(* lookahead check assert_global_item_next and the report! protocol.       *)
(* Each step of the loop is one action; pc is the position of the single   *)
(* thread of control inside parse_global.                                  *)
(***************************************************************************)
EXTENDS Naturals, Integers, Sequences, FiniteSets, TLC

VARIABLES tokens, token_index, token, reports, attrs, pc, terminator,
          result, branch, calls, entry, reports_at_call, index_at_call,
          iterations, iter_index, node, node_log

vars == <<tokens, token_index, token, reports, attrs, pc, terminator,
          result, branch, calls, entry, reports_at_call, index_at_call,
          iterations, iter_index, node, node_log>>

(* ---------------------------- bounds ----------------------------------- *)

\* longest token sequence drawn over the full token alphabet
MaxLen == 3
\* longest token sequence drawn over the modifier-chain alphabet
MaxChain == 5
\* number of parse / parse_global calls made on one parser
MaxCalls == 2

(* ---------------------------- tokens ----------------------------------- *)

\* TokenType: a tag, and for TokenType::String(data) the literal's data
TT(k) == [kind |-> k, data |-> ""]
StringTT(d) == [kind |-> "String", data |-> d]

\* the match arms of parse_global that only record an attribute
SimpleModifiers == {"Public", "Private", "Static", "Inline", "Abstract", "Final"}

ModifierKinds == SimpleModifiers \cup {"External"}

ItemKinds == {"Fn", "Struct", "Enum", "Class", "Const", "Interface"}

\* the lookahead check also accepting the end of input
GlobalItemStart_WithEOF == ItemKinds \cup ModifierKinds \cup {"EOF"}

\* the lookahead check with the Interface alternative left out
GlobalItemStart_NoInterface == (ItemKinds \ {"Interface"}) \cup ModifierKinds

\* the token types accepted by assert_global_item_next
GlobalItemStart == ItemKinds \cup ModifierKinds

\* the string passed as `after` by each match arm
KeywordText(k) ==
  CASE k = "Public" -> "public"
    [] k = "Private" -> "private"
    [] k = "Static" -> "static"
    [] k = "Inline" -> "inline"
    [] k = "External" -> "external"
    [] k = "Abstract" -> "abstract"
    [] k = "Final" -> "final"

\* the attribute recorded by each attribute-only match arm
AttrOf(k) ==
  CASE k = "Public" -> [attr |-> "Privacy", arg |-> "true"]
    [] k = "Private" -> [attr |-> "Privacy", arg |-> "false"]
    [] k = "Static" -> [attr |-> "Static", arg |-> ""]
    [] k = "Inline" -> [attr |-> "Inline", arg |-> ""]
    [] k = "Abstract" -> [attr |-> "Abstract", arg |-> ""]
    [] k = "Final" -> [attr |-> "Final", arg |-> ""]

\* the specifiers accepted after `external`, and the linkage each records
ExternalSpecifiers == {"C", "snowball", "system"}

\* the "snowball" arm recording the linkage of the "C" arm
LinkageOf_Mut(d) ==
  CASE d = "C" -> [attr |-> "External", arg |-> "C"]
    [] d = "snowball" -> [attr |-> "External", arg |-> "C"]
    [] d = "system" -> [attr |-> "External", arg |-> "System"]

LinkageOf(d) ==
  CASE d = "C" -> [attr |-> "External", arg |-> "C"]
    [] d = "snowball" -> [attr |-> "External", arg |-> "Snowball"]
    [] d = "system" -> [attr |-> "External", arg |-> "System"]

\* source text of a keyword token
KeywordLexeme(k) ==
  CASE k \in ModifierKinds -> KeywordText(k)
    [] k = "Fn" -> "fn"
    [] k = "Struct" -> "struct"
    [] k = "Enum" -> "enum"
    [] k = "Class" -> "class"
    [] k = "Const" -> "const"
    [] k = "Interface" -> "interface"

Tok(ty, text) == [type |-> ty, text |-> text]

KeywordTokens == {Tok(TT(k), KeywordLexeme(k)) : k \in ModifierKinds \cup ItemKinds}

StringData == {"C", "snowball", "system", "rust"}

StringTokens == {Tok(StringTT(d), d) : d \in StringData}

EOFToken == Tok(TT("EOF"), "")

OtherTokens == {Tok(TT("Number"), "42"), Tok(TT("RBrace"), "}")}

\* the token alphabet of the model
Tokens == KeywordTokens \cup StringTokens \cup OtherTokens \cup {EOFToken}

\* the alphabet of modifier chains in front of an item
ChainTokens == {Tok(TT(k), KeywordLexeme(k)) : k \in {"Public", "Static", "Inline", "Fn"}}
               \cup {EOFToken}

SeqsUpTo(S, n) == UNION {[1..k -> S] : k \in 1..n}

\* Token::get_type and Token::value
get_type(t) == t.type
value(t) == t.text

\* terminators a caller passes: end of input, a closing brace, or the type
\* of any token of the sequence
Terminators(ts) == {TT("EOF"), TT("RBrace")} \cup {get_type(ts[i]) : i \in 1..Len(ts)}

(* ---------------------------- diagnostics ------------------------------ *)

\* CompileError::new(kind, location).with_info(info); the location is the
\* position of the current token, info the set of ErrorInfo fields filled
CompileError(kind, args, info) ==
  [kind |-> kind, args |-> args, location |-> token_index, info |-> info]

\* Reports::add_error
add_error(e) == Append(reports, e)

\* AttrHandler::add_attr
add_attr(a) == Append(attrs, a)

(* ---------------------------- the parser ------------------------------- *)

\* no Node is built by the parser driver
NoNode == [kind |-> "none", attrs |-> <<>>]
NoLog == [kind |-> "none", attached |-> <<>>]

\* Parser::new: the cursor is on the first token, the sink is empty
Init ==
  /\ tokens \in SeqsUpTo(Tokens, MaxLen) \cup SeqsUpTo(ChainTokens, MaxChain)
  /\ token_index = 0
  /\ token = tokens[1]
  /\ reports = <<>>
  /\ attrs = <<>>
  /\ pc = "ready"
  /\ terminator = TT("EOF")
  /\ result = "none"
  /\ branch = "none"
  /\ calls = 0
  /\ entry = "none"
  /\ reports_at_call = 0
  /\ index_at_call = 0
  /\ iterations = 0
  /\ iter_index = 0
  /\ node = NoNode
  /\ node_log = NoLog

\* entry of parse_global(T): a new attribute accumulator, then the loop
Enter(T, name) ==
  /\ pc = "ready"
  /\ calls < MaxCalls
  /\ terminator' = T
  /\ attrs' = <<>>
  /\ result' = "none"
  /\ branch' = "none"
  /\ calls' = calls + 1
  /\ entry' = name
  /\ reports_at_call' = Len(reports)
  /\ index_at_call' = token_index
  /\ iterations' = 0
  /\ iter_index' = token_index
  /\ pc' = "loop"
  /\ UNCHANGED <<tokens, token_index, token, reports, node, node_log>>

parse_global == \E T \in Terminators(tokens) : Enter(T, "parse_global")

parse == Enter(TT("EOF"), "parse")

\* Parser::next: the index is incremented, then the sequence is indexed;
\* indexing past the end panics with the index already incremented
\* the cached token refreshed from the old index
next_Stale(to) ==
  /\ token_index' = token_index + 1
  /\ IF token_index + 1 < Len(tokens)
       THEN /\ token' = tokens[token_index + 1]
            /\ pc' = to
       ELSE /\ token' = token
            /\ pc' = "panic"

next(to) ==
  /\ token_index' = token_index + 1
  /\ IF token_index + 1 < Len(tokens)
       THEN /\ token' = tokens[token_index + 2]
            /\ pc' = to
       ELSE /\ token' = token
            /\ pc' = "panic"

\* report! without the add_error call
report_Silent(kind, args, info) ==
  /\ reports' = reports
  /\ pc' = "return_err"

\* report!: one diagnostic at the current token, then return Err(())
report(kind, args, info) ==
  /\ reports' = add_error(CompileError(kind, args, info))
  /\ pc' = "return_err"

\* one more pass through the body of the while loop, begun at the current
\* token (bookkeeping of the model, not state of the parser)
Iterate ==
  /\ iterations' = iterations + 1
  /\ iter_index' = token_index

\* while *self.token.get_type() != terminator { ... } Ok(())
LoopExit ==
  /\ pc = "loop"
  /\ UNCHANGED <<iterations, iter_index>>
  /\ get_type(token) = terminator
  /\ result' = "Ok"
  /\ pc' = "ready"
  /\ UNCHANGED <<tokens, token_index, token, reports, attrs, terminator,
                 branch, calls, entry, reports_at_call, index_at_call, node, node_log>>

\* the EOF arm missing: EOF falls through to the `_` arm
ArmEOF_Mut ==
  /\ pc = "loop"
  /\ Iterate
  /\ get_type(token) # terminator
  /\ get_type(token).kind = "EOF"
  /\ report("UnexpectedToken", <<value(token)>>, {})
  /\ UNCHANGED <<tokens, token_index, token, attrs, terminator, result,
                 branch, calls, entry, reports_at_call, index_at_call, node, node_log>>

\* TokenType::EOF => report!(self, Error::UnexpectedEOF)
ArmEOF ==
  /\ pc = "loop"
  /\ Iterate
  /\ get_type(token) # terminator
  /\ get_type(token).kind = "EOF"
  /\ report("UnexpectedEOF", <<>>, {})
  /\ UNCHANGED <<tokens, token_index, token, attrs, terminator, result,
                 branch, calls, entry, reports_at_call, index_at_call, node, node_log>>

\* the arm taken before the loop condition is tested (do-while)
ArmModifier_Mut ==
  /\ pc = "loop"
  /\ Iterate
  /\ get_type(token).kind \in SimpleModifiers
  /\ branch' = get_type(token).kind
  /\ next("add_attr")
  /\ UNCHANGED <<tokens, reports, attrs, terminator, result, calls, entry,
                 reports_at_call, index_at_call, node, node_log>>

\* the arm without its self.next()
ArmModifier_NoNext ==
  /\ pc = "loop"
  /\ Iterate
  /\ get_type(token) # terminator
  /\ get_type(token).kind \in SimpleModifiers
  /\ branch' = get_type(token).kind
  /\ pc' = "add_attr"
  /\ UNCHANGED <<tokens, token_index, token, reports, attrs, terminator, result,
                 calls, entry, reports_at_call, index_at_call, node, node_log>>

\* TokenType::Public | Private | Static | Inline | Abstract | Final:
\* self.next()
ArmModifier ==
  /\ pc = "loop"
  /\ Iterate
  /\ get_type(token) # terminator
  /\ get_type(token).kind \in SimpleModifiers
  /\ branch' = get_type(token).kind
  /\ next("add_attr")
  /\ UNCHANGED <<tokens, reports, attrs, terminator, result, calls, entry,
                 reports_at_call, index_at_call, node, node_log>>

\* the accumulator overwritten instead of extended
ArmModifierAttr_Overwrite ==
  /\ pc = "add_attr"
  /\ UNCHANGED <<iterations, iter_index>>
  /\ attrs' = <<AttrOf(branch)>>
  /\ pc' = "assert"
  /\ UNCHANGED <<tokens, token_index, token, reports, terminator, result,
                 branch, calls, entry, reports_at_call, index_at_call, node, node_log>>

\* a modifier whose attribute kind is already recorded rejected
ArmModifierAttr_Reject ==
  /\ pc = "add_attr"
  /\ UNCHANGED <<iterations, iter_index>>
  /\ IF \E i \in 1..Len(attrs) : attrs[i].attr = AttrOf(branch).attr
       THEN /\ report("UnexpectedToken", <<KeywordText(branch)>>, {})
            /\ UNCHANGED attrs
       ELSE /\ attrs' = add_attr(AttrOf(branch))
            /\ pc' = "assert"
            /\ UNCHANGED reports
  /\ UNCHANGED <<tokens, token_index, token, terminator, result,
                 branch, calls, entry, reports_at_call, index_at_call, node, node_log>>

\* attrs.add_attr(...) of the attribute-only arms
ArmModifierAttr ==
  /\ pc = "add_attr"
  /\ UNCHANGED <<iterations, iter_index>>
  /\ attrs' = add_attr(AttrOf(branch))
  /\ pc' = "assert"
  /\ UNCHANGED <<tokens, token_index, token, reports, terminator, result,
                 branch, calls, entry, reports_at_call, index_at_call, node, node_log>>

\* TokenType::External: self.next()
ArmExternal ==
  /\ pc = "loop"
  /\ Iterate
  /\ get_type(token) # terminator
  /\ get_type(token).kind = "External"
  /\ branch' = "External"
  /\ next("specifier")
  /\ UNCHANGED <<tokens, reports, attrs, terminator, result, calls, entry,
                 reports_at_call, index_at_call, node, node_log>>

\* the specifier consumed without testing that it is a string literal
ArmExternalSpecifier_Mut ==
  /\ pc = "specifier"
  /\ UNCHANGED <<iterations, iter_index>>
  /\ IF get_type(token).kind = "String" /\ get_type(token).data \in ExternalSpecifiers
       THEN attrs' = add_attr(LinkageOf(get_type(token).data))
       ELSE UNCHANGED attrs
  /\ pc' = "specifier_next"
  /\ UNCHANGED <<tokens, token_index, token, reports, terminator, result,
                 branch, calls, entry, reports_at_call, index_at_call, node, node_log>>

\* an unknown specifier string handled like a missing string literal
ArmExternalSpecifier_NoInvalid ==
  /\ pc = "specifier"
  /\ UNCHANGED <<iterations, iter_index>>
  /\ IF get_type(token).kind = "String" /\ get_type(token).data \in ExternalSpecifiers
       THEN /\ attrs' = add_attr(LinkageOf(get_type(token).data))
            /\ pc' = "specifier_next"
            /\ UNCHANGED reports
       ELSE /\ report("ExpectedItem", <<"external specifier", "external">>,
                      {"help", "note", "see"})
            /\ UNCHANGED attrs
  /\ UNCHANGED <<tokens, token_index, token, terminator, result, branch,
                 calls, entry, reports_at_call, index_at_call, node, node_log>>

\* match self.token.get_type() { TokenType::String(data) => ..., _ => ... }
ArmExternalSpecifier ==
  /\ pc = "specifier"
  /\ UNCHANGED <<iterations, iter_index>>
  /\ IF get_type(token).kind = "String"
       THEN IF get_type(token).data \in ExternalSpecifiers
              THEN /\ attrs' = add_attr(LinkageOf(get_type(token).data))
                   /\ pc' = "specifier_next"
                   /\ UNCHANGED reports
              ELSE /\ report("InvalidExternalSpecifier", <<get_type(token).data>>,
                             {"help", "info", "note", "see"})
                   /\ UNCHANGED attrs
       ELSE /\ report("ExpectedItem", <<"external specifier", "external">>,
                      {"help", "note", "see"})
            /\ UNCHANGED attrs
  /\ UNCHANGED <<tokens, token_index, token, terminator, result, branch,
                 calls, entry, reports_at_call, index_at_call, node, node_log>>

\* self.next() after a valid specifier
ArmExternalNext ==
  /\ pc = "specifier_next"
  /\ UNCHANGED <<iterations, iter_index>>
  /\ next("assert")
  /\ UNCHANGED <<tokens, reports, attrs, terminator, result, branch, calls,
                 entry, reports_at_call, index_at_call, node, node_log>>

\* the failure of the lookahead check not propagated: the loop resumes
assert_global_item_next_Resume ==
  /\ pc = "assert"
  /\ UNCHANGED <<iterations, iter_index>>
  /\ IF get_type(token).kind \in GlobalItemStart
       THEN UNCHANGED reports
       ELSE reports' = add_error(CompileError("ExpectedItem",
                         <<"global item", KeywordText(branch)>>, {"help", "see"}))
  /\ pc' = "loop"
  /\ UNCHANGED <<tokens, token_index, token, attrs, terminator, result,
                 branch, calls, entry, reports_at_call, index_at_call, node, node_log>>

\* every arm passing the same `after` string
assert_global_item_next_After ==
  /\ pc = "assert"
  /\ UNCHANGED <<iterations, iter_index>>
  /\ IF get_type(token).kind \in GlobalItemStart
       THEN /\ pc' = "loop"
            /\ UNCHANGED reports
       ELSE report("ExpectedItem", <<"global item", KeywordText("Public")>>,
                   {"help", "see"})
  /\ UNCHANGED <<tokens, token_index, token, attrs, terminator, result,
                 branch, calls, entry, reports_at_call, index_at_call, node, node_log>>

\* self.assert_global_item_next(after)?
assert_global_item_next ==
  /\ pc = "assert"
  /\ UNCHANGED <<iterations, iter_index>>
  /\ IF get_type(token).kind \in GlobalItemStart
       THEN /\ pc' = "loop"
            /\ UNCHANGED reports
       ELSE report("ExpectedItem", <<"global item", KeywordText(branch)>>,
                   {"help", "see"})
  /\ UNCHANGED <<tokens, token_index, token, attrs, terminator, result,
                 branch, calls, entry, reports_at_call, index_at_call, node, node_log>>

\* the `_` arm reporting the token's type instead of its text
ArmOther_Mut ==
  /\ pc = "loop"
  /\ Iterate
  /\ get_type(token) # terminator
  /\ get_type(token).kind \notin ModifierKinds \cup {"EOF"}
  /\ report("UnexpectedToken", <<get_type(token).kind>>, {})
  /\ UNCHANGED <<tokens, token_index, token, attrs, terminator, result,
                 branch, calls, entry, reports_at_call, index_at_call, node, node_log>>

\* _ => report!(self, Error::UnexpectedToken(self.token.value()))
ArmOther ==
  /\ pc = "loop"
  /\ Iterate
  /\ get_type(token) # terminator
  /\ get_type(token).kind \notin ModifierKinds \cup {"EOF"}
  /\ report("UnexpectedToken", <<value(token)>>, {})
  /\ UNCHANGED <<tokens, token_index, token, attrs, terminator, result,
                 branch, calls, entry, reports_at_call, index_at_call, node, node_log>>

\* return Err(()) of report!, propagated by `?` to the caller
ReturnErr ==
  /\ pc = "return_err"
  /\ UNCHANGED <<iterations, iter_index>>
  /\ result' = "Err"
  /\ pc' = "ready"
  /\ UNCHANGED <<tokens, token_index, token, reports, attrs, terminator,
                 branch, calls, entry, reports_at_call, index_at_call, node, node_log>>

Next ==
  \/ parse_global
  \/ parse
  \/ LoopExit
  \/ ArmEOF
  \/ ArmModifier
  \/ ArmModifierAttr
  \/ ArmExternal
  \/ ArmExternalSpecifier
  \/ ArmExternalNext
  \/ assert_global_item_next
  \/ ArmOther
  \/ ReturnErr

Spec == Init /\ [][Next]_vars

(* ------------------- the public methods called directly --------------- *)

\* entry of a public method other than parse / parse_global
EnterMethod(name) ==
  /\ pc = "ready"
  /\ calls < MaxCalls
  /\ calls' = calls + 1
  /\ entry' = name
  /\ reports_at_call' = Len(reports)
  /\ index_at_call' = token_index
  /\ iterations' = 0
  /\ iter_index' = token_index
  /\ UNCHANGED <<tokens, attrs, terminator, node, node_log>>

\* a caller's self.next()
call_next ==
  /\ EnterMethod("next")
  /\ next("ready")
  /\ result' = "none"
  /\ UNCHANGED <<reports, branch>>

\* a caller's self.assert_global_item_next(after)
call_assert_global_item_next ==
  \E k \in ModifierKinds :
    /\ EnterMethod("assert_global_item_next")
    /\ branch' = k
    /\ IF get_type(token).kind \in GlobalItemStart
         THEN /\ result' = "Ok"
              /\ pc' = "ready"
              /\ UNCHANGED reports
         ELSE /\ report("ExpectedItem", <<"global item", KeywordText(k)>>,
                         {"help", "see"})
              /\ result' = "none"
    /\ UNCHANGED <<token_index, token>>

CursorNext ==
  \/ parse_global
  \/ parse
  \/ call_next
  \/ call_assert_global_item_next
  \/ LoopExit
  \/ ArmEOF
  \/ ArmModifier
  \/ ArmModifierAttr
  \/ ArmExternal
  \/ ArmExternalSpecifier
  \/ ArmExternalNext
  \/ assert_global_item_next
  \/ ArmOther
  \/ ReturnErr

\* longest token sequence of a parser whose methods are called directly
MaxCursorLen == 2

\* Parser::new, over the shorter sequences
CursorInit ==
  /\ Init
  /\ tokens \in SeqsUpTo(Tokens, MaxCursorLen) \cup SeqsUpTo(ChainTokens, MaxChain)

\* the parser with every public method open to its caller
SpecCursor == CursorInit /\ [][CursorNext]_vars

(* ---------------------------- Node ------------------------------------- *)

\* longest attribute set attached to a node
MaxAttrs == 1
\* number of with_attrs calls on one node
MaxAttach == 3

\* AST values a node is built from
NodeKinds == {"TopLevel", "Stmt::Break", "Stmt::Continue", "Stmt::Return",
              "Expr::Int", "Expr::Bool"}

\* AttrHandler values: the attributes accumulated, in order
AttrHandlers ==
  {<<>>} \cup SeqsUpTo({AttrOf("Public"), AttrOf("Static"), LinkageOf("C")}, MaxAttrs)

\* Option: None is the empty sequence, Some(a) the sequence <<a>>
None == <<>>
Some(a) == <<a>>

\* Node::new
Node_new(kind) == [kind |-> kind, attrs |-> None]

\* Node::get_kind
get_kind(n) == n.kind

\* Node::get_attrs
get_attrs(n) == n.attrs

\* the attribute set kept when one is already attached
with_attrs_KeepFirst(n, a) ==
  IF n.attrs = None THEN [n EXCEPT !.attrs = Some(a)] ELSE n

\* Node::with_attrs
with_attrs(n, a) == [n EXCEPT !.attrs = Some(a)]

\* a Node built from any AST value; no parser takes part
NodeInit ==
  /\ tokens = <<EOFToken>>
  /\ token_index = 0
  /\ token = EOFToken
  /\ reports = <<>>
  /\ attrs = <<>>
  /\ pc = "node"
  /\ terminator = TT("EOF")
  /\ result = "none"
  /\ branch = "none"
  /\ calls = 0
  /\ entry = "none"
  /\ reports_at_call = 0
  /\ index_at_call = 0
  /\ iterations = 0
  /\ iter_index = 0
  /\ \E k \in NodeKinds :
       /\ node = Node_new(k)
       /\ node_log = [kind |-> k, attached |-> <<>>]

\* node.with_attrs(a)
WithAttrs ==
  \E a \in AttrHandlers :
    /\ pc = "node"
    /\ Len(node_log.attached) < MaxAttach
    /\ node' = with_attrs(node, a)
    /\ node_log' = [node_log EXCEPT !.attached = Append(@, a)]
    /\ UNCHANGED <<tokens, token_index, token, reports, attrs, pc, terminator,
                   result, branch, calls, entry, reports_at_call, index_at_call,
                   iterations, iter_index>>

NodeNext == WithAttrs

SpecNode == NodeInit /\ [][NodeNext]_vars

TypeOK ==
  /\ token_index \in 0..Len(tokens)
  /\ pc \in {"ready", "loop", "add_attr", "assert", "specifier",
             "specifier_next", "return_err", "panic"}
  /\ result \in {"none", "Ok", "Err"}
  /\ calls \in 0..MaxCalls

(* ---------------------------- properties ------------------------------- *)

\* a call of parse / parse_global has returned
Returned == pc = "ready" /\ result # "none"

\* the first call on a fresh parser has returned
ReturnedFresh == Returned /\ calls = 1

\* the diagnostic appended last
LastReport == reports[Len(reports)]

\* the keyword sets as the specification lists them
SpecModifiers == {"Public", "Private", "Static", "Inline", "External", "Abstract", "Final"}
SpecItems == {"Fn", "Struct", "Enum", "Class", "Const", "Interface"}

KindAt(i) == tokens[i].type.kind

\* C1: on a fresh parser, parse over [M, I, EOF] (M a modifier keyword, I an
\* item-start token; `external` followed by a valid specifier string) returns
\* success and leaves the diagnostic sink empty.
C1_ModifierThenItemSucceeds ==
  LET plain == /\ Len(tokens) = 3
               /\ KindAt(1) \in SpecModifiers \ {"External"}
               /\ KindAt(2) \in SpecItems
               /\ KindAt(3) = "EOF"
      ext   == /\ Len(tokens) = 4
               /\ KindAt(1) = "External"
               /\ KindAt(2) = "String"
               /\ tokens[2].type.data \in {"C", "snowball", "system"}
               /\ KindAt(3) \in SpecItems
               /\ KindAt(4) = "EOF"
  IN (ReturnedFresh /\ terminator.kind = "EOF" /\ (plain \/ ext))
       => (result = "Ok" /\ reports = <<>>)

\* C2: for every permutation P of {public, static, inline}, parse_global over
\* [P..., Fn, terminator] on a fresh parser succeeds.
C2_ModifierOrderAccepted ==
  (/\ ReturnedFresh
   /\ Len(tokens) = 5
   /\ {KindAt(1), KindAt(2), KindAt(3)} = {"Public", "Static", "Inline"}
   /\ KindAt(4) = "Fn"
   /\ tokens[5].type = terminator
   /\ terminator.kind # "Fn")
    => result = "Ok"

\* C3: a call that returns failure has appended exactly one diagnostic, a call
\* that returns success has appended none, and while a call runs the sink has
\* grown by at most one.
C3_OneDiagnosticPerFailure ==
  /\ Len(reports) \in {reports_at_call, reports_at_call + 1}
  /\ Returned => (result = "Err" <=> Len(reports) = reports_at_call + 1)
  /\ Returned => (result = "Ok" <=> Len(reports) = reports_at_call)

\* a second call on the same parser fails with the sink already holding the
\* first call's diagnostic
C3_Witness ==
  Returned /\ calls = 2 /\ result = "Err" /\ reports_at_call = 1 /\ Len(reports) = 2

\* the sequence [M, T] parsed by parse_global(T) on a fresh parser
C4_Case ==
  /\ calls = 1
  /\ entry = "parse_global"
  /\ Len(tokens) = 2
  /\ KindAt(1) \in SpecModifiers
  /\ tokens[2].type = terminator

C4_Fails ==
  /\ result = "Err"
  /\ Len(reports) = 1
  /\ reports[1].kind = "ExpectedItem"
  /\ reports[1].args[2] = tokens[1].text

\* C4 as stated: for every modifier M and every terminator T, parse_global(T)
\* over [M, T] fails with exactly one ExpectedItem whose `after` is M's text.
C4_Original == (C4_Case /\ Returned) => C4_Fails

\* C4 amended: the same, for every terminator T that is not a legal
\* global-item starter and, when M is `external`, not a string literal; the
\* call returns (it does not over-advance).
C4_ModifierThenTerminatorFails ==
  (/\ C4_Case
   /\ terminator.kind \notin SpecModifiers \cup SpecItems
   /\ KindAt(1) = "External" => terminator.kind # "String")
    => /\ pc # "panic"
       /\ Returned => C4_Fails

C4_Witness ==
  /\ C4_Case
  /\ Returned
  /\ KindAt(1) = "Private"
  /\ terminator.kind = "RBrace"
  /\ C4_Fails

\* C5: over a sequence whose last token is EOF the cursor never over-advances:
\* token_index stays below the length of the sequence and next() never panics.
C5_CursorInBounds ==
  KindAt(Len(tokens)) = "EOF" => (token_index < Len(tokens) /\ pc # "panic")

\* the cursor has advanced onto the final EOF
C5_Witness ==
  /\ KindAt(Len(tokens)) = "EOF"
  /\ Len(tokens) = 3
  /\ token_index = 2
  /\ pc = "assert"

\* C6: once a diagnostic is appended the call only returns failure: the cursor
\* does not move, no attribute and no further diagnostic is recorded.
C6_StopAtFirstError ==
  [][/\ Len(reports') > Len(reports) => pc' = "return_err"
     /\ pc = "return_err" =>
          /\ pc' = "ready"
          /\ result' = "Err"
          /\ UNCHANGED <<token_index, token, attrs, reports>>]_vars

\* a diagnostic has been reported after two modifiers were recorded
C6_Witness == pc = "return_err" /\ Len(attrs) = 2 /\ LastReport.kind = "ExpectedItem"

\* C7 as stated: with a terminator other than EOF, a call that has reached an
\* EOF token anywhere fails with an UnexpectedEOF diagnostic.
C7_Original ==
  (Returned /\ terminator.kind # "EOF" /\ get_type(token).kind = "EOF")
    => (result = "Err" /\ LastReport.kind = "UnexpectedEOF")

\* C7 amended: with a terminator other than EOF, an EOF token at the head of
\* the loop is reported as UnexpectedEOF; an EOF directly after a consumed
\* modifier is reported as ExpectedItem instead.
C7_EOFBeforeTerminator ==
  [][(terminator.kind # "EOF" /\ get_type(token).kind = "EOF"
        /\ pc \in {"loop", "assert", "specifier"})
      => /\ pc' = "return_err"
         /\ Len(reports') = Len(reports) + 1
         /\ reports'[Len(reports')].kind =
              IF pc = "loop" THEN "UnexpectedEOF" ELSE "ExpectedItem"
         /\ token_index' = token_index]_vars

C7_Witness ==
  /\ Returned
  /\ terminator.kind = "RBrace"
  /\ get_type(token).kind = "EOF"
  /\ result = "Err"
  /\ LastReport.kind = "UnexpectedEOF"

\* C8: on a fresh parser whose first token is EOF, parse_global with a
\* terminator other than EOF fails with exactly one diagnostic, UnexpectedEOF,
\* and the cursor does not advance.
C8_LeadingEOF ==
  (calls = 1 /\ KindAt(1) = "EOF" /\ terminator.kind # "EOF")
    => /\ token_index = 0
       /\ pc \in {"loop", "return_err", "ready"}
       /\ pc = "ready" =>
            /\ result = "Err"
            /\ Len(reports) = 1
            /\ reports[1].kind = "UnexpectedEOF"

C8_Witness ==
  /\ ReturnedFresh
  /\ Len(tokens) = 3
  /\ KindAt(1) = "EOF"
  /\ terminator.kind = "Fn"
  /\ reports[1].kind = "UnexpectedEOF"

\* C9: parse_global(T) on a fresh parser over the one-token sequence [T]
\* returns success with an empty sink, the cursor and the accumulator untouched.
C9_TerminatorOnly ==
  (calls = 1 /\ Len(tokens) = 1 /\ tokens[1].type = terminator)
    => /\ pc \in {"loop", "ready"}
       /\ pc = "ready" => result = "Ok"
       /\ reports = <<>>
       /\ token_index = 0
       /\ attrs = <<>>

C9_Witness ==
  /\ ReturnedFresh
  /\ Len(tokens) = 1
  /\ KindAt(1) = "Public"
  /\ terminator.kind = "Public"
  /\ result = "Ok"

\* C10: a token at the head of the loop that is not the terminator, EOF, a
\* modifier or an item starter is reported by exactly one UnexpectedToken
\* diagnostic carrying the token's text, and the cursor stays on the token.
C10_UnexpectedToken ==
  [][(/\ pc = "loop"
      /\ get_type(token) # terminator
      /\ get_type(token).kind \notin SpecModifiers \cup SpecItems \cup {"EOF"})
      => /\ pc' = "return_err"
         /\ reports' = Append(reports,
              [kind |-> "UnexpectedToken", args |-> <<token.text>>,
               location |-> token_index, info |-> {}])
         /\ UNCHANGED <<token_index, token>>]_vars

C10_Witness ==
  /\ Returned
  /\ result = "Err"
  /\ get_type(token).kind = "Number"
  /\ LastReport.kind = "UnexpectedToken"
  /\ LastReport.args = <<"42">>

\* the attribute each attribute-only modifier stands for
ModifierAttr ==
  [Public |-> [attr |-> "Privacy", arg |-> "true"],
   Private |-> [attr |-> "Privacy", arg |-> "false"],
   Static |-> [attr |-> "Static", arg |-> ""],
   Inline |-> [attr |-> "Inline", arg |-> ""],
   Abstract |-> [attr |-> "Abstract", arg |-> ""],
   Final |-> [attr |-> "Final", arg |-> ""]]

\* the keyword text of each modifier
ModifierText ==
  [Public |-> "public", Private |-> "private", Static |-> "static",
   Inline |-> "inline", External |-> "external", Abstract |-> "abstract",
   Final |-> "final"]

\* the linkage each valid specifier names
SpecifierLinkage == [C |-> "C", snowball |-> "Snowball", system |-> "System"]

\* C11: when the lookahead check of the `external` arm is reached, the cursor
\* has moved past `external` and the specifier string (two tokens), the
\* attribute recorded last is the linkage the specifier names, one attribute
\* was recorded per pass of the loop, and no diagnostic was reported.
C11_ExternalLinkage ==
  (pc = "assert" /\ branch = "External")
    => /\ token_index = iter_index + 2
       /\ KindAt(iter_index + 1) = "External"
       /\ KindAt(iter_index + 2) = "String"
       /\ token = tokens[token_index + 1]
       /\ Len(attrs) = iterations
       /\ attrs[Len(attrs)] =
            [attr |-> "External",
             arg |-> SpecifierLinkage[tokens[iter_index + 2].type.data]]
       /\ Len(reports) = reports_at_call

C11_Witness ==
  /\ pc = "assert"
  /\ branch = "External"
  /\ attrs = <<[attr |-> "External", arg |-> "Snowball"]>>
  /\ token_index = 2

\* C12: `external` followed by a string other than "C", "snowball", "system"
\* is reported by exactly one InvalidExternalSpecifier diagnostic carrying the
\* string; no attribute is recorded and the cursor stays on the string.
C12_InvalidSpecifier ==
  [][(/\ pc = "specifier"
      /\ get_type(token).kind = "String"
      /\ get_type(token).data \notin {"C", "snowball", "system"})
      => /\ pc' = "return_err"
         /\ reports' = Append(reports,
              [kind |-> "InvalidExternalSpecifier",
               args |-> <<get_type(token).data>>,
               location |-> token_index,
               info |-> {"help", "info", "note", "see"}])
         /\ UNCHANGED <<attrs, token_index, token>>]_vars

C12_Witness ==
  /\ Returned
  /\ result = "Err"
  /\ get_type(token) = StringTT("rust")
  /\ LastReport.kind = "InvalidExternalSpecifier"
  /\ LastReport.args = <<"rust">>
  /\ attrs = <<>>

\* C13: `external` followed by a token that is not a string literal is
\* reported by exactly one ExpectedItem("external specifier", "external")
\* diagnostic, and no attribute is recorded.
C13_MissingSpecifier ==
  [][(pc = "specifier" /\ get_type(token).kind # "String")
      => /\ pc' = "return_err"
         /\ reports' = Append(reports,
              [kind |-> "ExpectedItem",
               args |-> <<"external specifier", "external">>,
               location |-> token_index,
               info |-> {"help", "note", "see"}])
         /\ UNCHANGED <<attrs, token_index, token>>]_vars

C13_Witness ==
  /\ Returned
  /\ result = "Err"
  /\ get_type(token).kind = "EOF"
  /\ LastReport.args = <<"external specifier", "external">>
  /\ attrs = <<>>

\* the tokens consumed by the running call
Consumed == (index_at_call + 1)..token_index

\* C14: when the loop head is reached after a prefix of attribute-only
\* modifiers, one attribute was recorded per consumed modifier and the set of
\* recorded attributes is determined by the set of modifiers consumed, not by
\* their order.
C14_AttributesOrderFree ==
  (pc = "loop" /\ \A i \in Consumed : KindAt(i) \in DOMAIN ModifierAttr)
    => /\ Len(attrs) = token_index - index_at_call
       /\ {attrs[i] : i \in 1..Len(attrs)} =
            {ModifierAttr[k] : k \in {KindAt(i) : i \in Consumed}}

C14_Witness ==
  /\ pc = "loop"
  /\ calls = 1
  /\ token_index = 3
  /\ KindAt(1) = "Static" /\ KindAt(2) = "Public" /\ KindAt(3) = "Inline"
  /\ get_type(token).kind = "Fn"
  /\ Len(attrs) = 3

\* C15: a node reads back the kind it was built from; its attributes are
\* absent until a set is attached, and afterwards are the set attached last.
C15_NodeRoundTrip ==
  pc = "node"
    => /\ get_kind(node) = node_log.kind
       /\ get_attrs(node) =
            IF node_log.attached = <<>>
              THEN <<>>
              ELSE <<node_log.attached[Len(node_log.attached)]>>

C15_Witness ==
  /\ pc = "node"
  /\ Len(node_log.attached) = 2
  /\ node_log.attached[1] # node_log.attached[2]
  /\ node.attrs = <<node_log.attached[2]>>

\* C16: parse() on a fresh parser over a sequence that ends with EOF returns,
\* and returns success exactly when the first token is EOF.
C16_ParseAcceptsOnlyEmpty ==
  (entry = "parse" /\ calls = 1 /\ KindAt(Len(tokens)) = "EOF")
    => /\ pc # "panic"
       /\ Returned => (result = "Ok" <=> KindAt(1) = "EOF")

C16_Witness ==
  /\ ReturnedFresh
  /\ entry = "parse"
  /\ Len(tokens) = 2
  /\ KindAt(1) = "Fn"
  /\ KindAt(2) = "EOF"
  /\ result = "Err"

C17_Diagnostic(after) ==
  [kind |-> "ExpectedItem", args |-> <<"global item", after>>,
   location |-> token_index, info |-> {"help", "see"}]

\* C17: assert_global_item_next(after), called by the loop or directly,
\* succeeds without a diagnostic exactly when the current token is one of the
\* 13 starter types, and otherwise appends one ExpectedItem("global item",
\* after) and fails; it never moves the cursor.
C17_LookaheadCheck ==
  [][/\ pc = "assert" =>
          /\ UNCHANGED <<token_index, token>>
          /\ IF get_type(token).kind \in SpecModifiers \cup SpecItems
               THEN pc' = "loop" /\ reports' = reports
               ELSE /\ pc' = "return_err"
                    /\ reports' = Append(reports, C17_Diagnostic(ModifierText[branch]))
     /\ (entry' = "assert_global_item_next" /\ calls' = calls + 1) =>
          /\ UNCHANGED <<token_index, token>>
          /\ IF get_type(token).kind \in SpecModifiers \cup SpecItems
               THEN pc' = "ready" /\ result' = "Ok" /\ reports' = reports
               ELSE /\ pc' = "return_err"
                    /\ reports' = Append(reports, C17_Diagnostic(ModifierText[branch']))
     /\ pc = "return_err" => (pc' = "ready" /\ result' = "Err")]_vars

C17_Witness ==
  /\ Returned
  /\ entry = "assert_global_item_next"
  /\ result = "Err"
  /\ get_type(token).kind = "EOF"
  /\ LastReport.args = <<"global item", "final">>

\* C18: over a sequence that ends with EOF, every pass of the loop either
\* leaves the loop or moves the cursor forward (by 1 for a plain modifier, by 2
\* for `external` with a valid specifier), the passes number at most the
\* length of the sequence, and a running call always has a step to take.
C18_Termination ==
  /\ [](KindAt(Len(tokens)) = "EOF" =>
          /\ pc # "panic"
          /\ iterations <= Len(tokens)
          /\ pc = "loop" => token_index - index_at_call >= iterations
          /\ pc \in {"loop", "add_attr", "specifier", "specifier_next",
                     "assert", "return_err"} => ENABLED Next)
  /\ [][/\ (pc = "loop" /\ pc' \notin {"ready", "return_err"})
             => token_index' = token_index + 1
        /\ (pc = "assert" /\ pc' = "loop")
             => token_index =
                  iter_index + (IF branch = "External" THEN 2 ELSE 1)]_vars

C18_Witness ==
  /\ pc = "loop"
  /\ KindAt(Len(tokens)) = "EOF"
  /\ iterations = 2
  /\ token_index = 2
  /\ calls = 1

\* C19: through any calls of next(), parse_global and
\* assert_global_item_next, the cached token is tokens[token_index] while the
\* index is in bounds, the sequence never changes, the index never decreases,
\* and a step that moves the index moves it by exactly 1 and leaves the sink
\* and the accumulator alone.
C19_CursorConsistent ==
  /\ [](pc # "panic" => (token_index < Len(tokens) /\ token = tokens[token_index + 1]))
  /\ [][/\ tokens' = tokens
        /\ token_index' >= token_index
        /\ token_index' # token_index =>
             /\ token_index' = token_index + 1
             /\ UNCHANGED <<reports, attrs>>]_vars

C19_Witness ==
  /\ pc = "ready"
  /\ entry = "next"
  /\ calls = 2
  /\ token_index = 2
  /\ token = tokens[3]

\* C20: handling a modifier never depends on the accumulator: a modifier at
\* the loop head is consumed without a diagnostic, its attribute is appended
\* whatever is already recorded, and a legal starter after it passes the
\* lookahead check without a diagnostic.
C20_RepeatedModifiersAccepted ==
  [][/\ (/\ pc = "loop"
         /\ get_type(token) # terminator
         /\ get_type(token).kind \in DOMAIN ModifierAttr)
          => (pc' \in {"add_attr", "panic"} /\ reports' = reports)
     /\ pc = "add_attr"
          => /\ attrs' = Append(attrs, ModifierAttr[branch])
             /\ reports' = reports
             /\ pc' = "assert"
     /\ (pc = "assert" /\ get_type(token).kind \in SpecModifiers \cup SpecItems)
          => (pc' = "loop" /\ reports' = reports)]_vars

C20_Witness ==
  /\ pc = "loop"
  /\ calls = 1
  /\ token_index = 2
  /\ KindAt(1) = "Public"
  /\ KindAt(2) = "Private"
  /\ attrs = <<ModifierAttr["Public"], ModifierAttr["Private"]>>
  /\ reports = <<>>

====
